---- MODULE Spec2Model ----
(***************************************************************************)
(* Model of the Shopify checkout gateway (src/server.js) and of the        *)
(* parallel card tester (src/test_parallel.js).                            *)
(*                                                                         *)
(* JavaScript strings are sequences of one-character strings, so that      *)
(* split, replace, slice and padStart are computed as the code computes    *)
(* them.  The JavaScript value undefined is the value Undef.               *)
(***************************************************************************)
EXTENDS Integers, Sequences, FiniteSets, TLC

VARIABLES
    pIn,       \* card-string parsing: the fields the input string is built from
    pHarness,  \* card-string parsing: what parseCard returned (NotYet before)
    pGateway,  \* card-string parsing: the answer of POST /parse-card (NotYet before)
    gpc,       \* gateway: position of the handler of the current request
    req,       \* gateway: the current request
    ctorLog,   \* gateway: engine constructions of the current request, in order
    opLog,     \* gateway: events of the current request, in order
    bi,        \* gateway: /bulk-checkout loop position (index of the current card)
    results,   \* gateway: /bulk-checkout results array
    res,       \* gateway: the response of the current request (NotYet before)
    alive,     \* gateway: the server process is running
    failed,    \* gateway: a dependency raised in a request answered earlier
    CARDS,     \* harness: the card list
    li,        \* harness: next index CARDS.map will call testCard on
    att,       \* harness: state of each testCard call
    rec,       \* harness: the record each testCard call resolved with
    engines,   \* harness: indexes for which an engine instance was constructed
    hpc,       \* harness: position of runParallelTests
    grouped,   \* harness: the six buckets
    gi,        \* harness: position of the grouping loop
    printed    \* harness: report sections printed so far, in order

pvars == <<pIn, pHarness, pGateway>>
gvars == <<gpc, req, ctorLog, opLog, bi, results, res, alive, failed>>
hvars == <<CARDS, li, att, rec, engines, hpc, grouped, gi, printed>>
vars == <<pvars, gvars, hvars>>

----
(* Bounds of the model *)

\* longest number field and month field drawn as an input
MaxFieldLen == 2
\* longest year field drawn as an input
MaxYearLen == 4
\* longest `cards` array of a /bulk-checkout request, longest harness card list
MaxCards == 2

----
(* JavaScript values and string primitives *)

Undef == <<"undefined">>
\* a variable that holds no value yet, and the JavaScript value null where an
\* object is expected
NotYet == [pending |-> TRUE]
Null == [null |-> TRUE]

Digits == {"0", "1", "2", "3", "4", "5", "6", "7", "8", "9"}
Whitespace == {" "}

S20 == <<"2", "0">>

\* all sequences over alphabet a of length 0..n
RECURSIVE StrUpTo(_, _)
StrUpTo(a, n) ==
    IF n = 0 THEN {<<>>}
    ELSE LET shorter == StrUpTo(a, n - 1)
         IN shorter \cup {Append(s, c) : s \in {t \in shorter : Len(t) = n - 1}, c \in a}

\* String.prototype.split(sep) for a one-character separator
RECURSIVE Split(_, _)
Split(s, sep) ==
    IF s = <<>> THEN << <<>> >>
    ELSE LET init == Split(SubSeq(s, 1, Len(s) - 1), sep)
             c == s[Len(s)]
         IN IF c = sep THEN Append(init, <<>>)
            ELSE [init EXCEPT ![Len(init)] = Append(@, c)]

\* s.replace(/[seps]+/g, '|'): every maximal run of characters of seps becomes one '|'
RECURSIVE CollapseRuns(_, _)
CollapseRuns(s, seps) ==
    IF s = <<>> THEN <<>>
    ELSE LET front == SubSeq(s, 1, Len(s) - 1)
             c == s[Len(s)]
         IN IF c \in seps
            THEN IF front # <<>> /\ front[Len(front)] \in seps
                 THEN CollapseRuns(front, seps)
                 ELSE Append(CollapseRuns(front, seps), "|")
            ELSE Append(CollapseRuns(front, seps), c)

\* s.split(/[seps]+/) where '|' is one of seps
SplitRuns(s, seps) == Split(CollapseRuns(s, seps), "|")

\* s.replace(/\D/g, '') and s.replace(/\s/g, '')
RECURSIVE Keep(_, _)
Keep(s, chars) ==
    IF s = <<>> THEN <<>>
    ELSE LET rest == Keep(SubSeq(s, 1, Len(s) - 1), chars)
             c == s[Len(s)]
         IN IF c \in chars THEN Append(rest, c) ELSE rest

Remove(s, chars) == Keep(s, {s[i] : i \in 1..Len(s)} \ chars)

Includes(s, c) == \E i \in 1..Len(s) : s[i] = c

\* s.padStart(2, '0')
PadStart2(s) ==
    IF Len(s) >= 2 THEN s
    ELSE IF Len(s) = 1 THEN <<"0">> \o s ELSE <<"0", "0">>

\* s.slice(-4)
SliceLast4(s) == IF Len(s) <= 4 THEN s ELSE SubSeq(s, Len(s) - 3, Len(s))

\* parts[i] of a JavaScript array (1-based here): undefined past the end
At(parts, i) == IF i <= Len(parts) THEN parts[i] ELSE Undef

----
(* The card strings drawn as inputs: N|M|Y|C with each field over a small   *)
(* alphabet that holds digits and the characters the parsers treat          *)
(* specially.                                                               *)

NumberFields == StrUpTo({"4", " "}, MaxFieldLen)
MonthFields == StrUpTo({"1", "/"}, MaxFieldLen)
YearFields == StrUpTo({"2"}, MaxYearLen)
CvvFields == {<<>>, <<"3">>, <<"3", "3", "3">>}

FieldTuples ==
    [number : NumberFields, month : MonthFields, year : YearFields, cvv : CvvFields]

CardString(f) == f.number \o <<"|">> \o f.month \o <<"|">> \o f.year \o <<"|">> \o f.cvv

IsDigits(s) == \A i \in 1..Len(s) : s[i] \in Digits

----
(* test_parallel.js: parseCard *)

\* parts[2].length === 2 ? `20${parts[2]}` : parts[2]
HarnessYear(y) == IF Len(y) = 2 THEN S20 \o y ELSE y

parseCard(ccString) ==
    LET parts == Split(ccString, "|")
    IN IF Len(parts) < 4 THEN Null
       ELSE [number |-> Remove(parts[1], Whitespace),
             month |-> PadStart2(parts[2]),
             year |-> HarnessYear(parts[3]),
             cvv |-> parts[4],
             name |-> "John Smith"]

----
(* server.js: POST /parse-card *)

CardType(number) ==
    IF Len(number) >= 1 /\ number[1] = "4" THEN "visa"
    ELSE IF Len(number) >= 2 /\ number[1] = "5" /\ number[2] \in {"1", "2", "3", "4", "5"}
         THEN "mastercard"
    ELSE IF Len(number) >= 2 /\ number[1] = "3" /\ number[2] \in {"4", "7"} THEN "amex"
    ELSE IF \/ Len(number) >= 4 /\ SubSeq(number, 1, 4) = <<"6", "0", "1", "1">>
            \/ Len(number) >= 2 /\ SubSeq(number, 1, 2) = <<"6", "5">>
         THEN "discover"
    ELSE "unknown"

\* the year left as it was supplied
GatewayYearKept(y) == y

\* y.length === 2 ? '20' + y : y
GatewayYear(y) == IF Len(y) = 2 THEN S20 \o y ELSE y

ParseCardYear(parts) ==
    IF Includes(parts[2], "/")
    THEN GatewayYear(Split(parts[2], "/")[2])
    ELSE GatewayYear(parts[3])

ParseCardRoute(cardString) ==
    IF cardString = <<>>
    THEN [status |-> 400, body |-> [error |-> "Missing cardString"]]
    ELSE LET parts == SplitRuns(cardString, {"|"} \cup Whitespace)
         IN IF Len(parts) < 3
            THEN [status |-> 400, body |-> [error |-> "Invalid card format"]]
            ELSE LET number == Keep(parts[1], Digits)
                     slash == Includes(parts[2], "/")
                 IN [status |-> 200,
                     body |-> [number |-> number,
                               month |-> IF slash THEN Split(parts[2], "/")[1]
                                         ELSE parts[2],
                               year |-> ParseCardYear(parts),
                               cvv |-> IF slash THEN parts[3]
                                       ELSE IF Len(parts) >= 4 THEN parts[4] ELSE <<>>,
                               type |-> CardType(number)]]

----
(* The states in which a component takes no part in a behaviour *)

POff == pIn = NotYet /\ pHarness = NotYet /\ pGateway = NotYet

GOff ==
    /\ gpc = "off" /\ req = NotYet /\ ctorLog = <<>> /\ opLog = <<>> /\ bi = 1
    /\ results = <<>> /\ res = NotYet /\ alive = TRUE /\ failed = FALSE

HOff ==
    /\ CARDS = <<>> /\ li = 1 /\ att = <<>> /\ rec = <<>> /\ engines = {}
    /\ hpc = "off" /\ grouped = <<>> /\ gi = 1 /\ printed = <<>>

----
(* server.js: values of the gateway *)

\* Strings the code never takes apart are one-element sequences holding the
\* whole string; so are the JavaScript values null, true, false and {}.
JsNull == <<"null">>
JsTrue == <<"true">>
JsFalse == <<"false">>
EmptyObject == <<"{}">>
\* a card number sent as a JSON number instead of a string
JsNumber == <<"4111222233334444 (number)">>

Falsy(v) == v \in {Undef, JsNull, JsFalse, <<>>}

\* a || b
Or(a, b) == IF Falsy(a) THEN b ELSE a

StartsWith(s, prefix) ==
    Len(s) >= Len(prefix) /\ SubSeq(s, 1, Len(prefix)) = prefix

IncludesSub(s, sub) ==
    \E i \in 1..Len(s) : i + Len(sub) - 1 <= Len(s) /\ SubSeq(s, i, i + Len(sub) - 1) = sub

Http == <<"h", "t", "t", "p", ":", "/", "/">>
Https == <<"h", "t", "t", "p", "s", ":", "/", "/">>

\* s.replace(/^https?:\/\//, '')
StripScheme(s) ==
    IF StartsWith(s, Http) THEN SubSeq(s, Len(Http) + 1, Len(s))
    ELSE IF StartsWith(s, Https) THEN SubSeq(s, Len(Https) + 1, Len(s))
    ELSE s

\* s.replace(/\/.*$/, '')
StripPath(s) ==
    IF Includes(s, "/")
    THEN SubSeq(s, 1, (CHOOSE i \in 1..Len(s) :
                          s[i] = "/" /\ \A j \in 1..(i - 1) : s[j] # "/") - 1)
    ELSE s

\* a `site` query parameter given twice (site=://&site=d): req.query.site is
\* the array ['://', 'd'], not a string
SiteArray == <<"['://', 'd'] (array)">>

\* site.includes('://') is true of this array (it has the element '://') and
\* an array has no replace method: line 71 (151) throws a TypeError
SiteThrows(site) == site = SiteArray

NotAFunction == <<"site.replace is not a function">>

\* lines 69-72, 149-152
DomainOf(site) ==
    IF IncludesSub(site, <<":", "/", "/">>) THEN StripPath(StripScheme(site)) ELSE site

\* the class [:;,=>\-\s\/]
CcSeparators == {":", ";", ",", "=", ">", "-", "/"} \cup Whitespace

\* debug === 'true' || debug === '1'
DebugFlag(debug) ==
    IF debug \in {<<"t", "r", "u", "e">>, <<"1">>} THEN JsTrue ELSE JsFalse

Early(status, body) == [kind |-> "early", res |-> [status |-> status, body |-> body]]
Construct(args, op) == [kind |-> "construct", args |-> args, op |-> op]
\* the handler throws before it reaches the constructor
Throw(message) == [kind |-> "throw", message |-> message]

Envelope(status, response) ==
    [Status |-> status, Gateway |-> <<"NONE">>, Price |-> JsNull,
     response |-> response, Retries |-> 0]

----
(* server.js: GET /autog and GET /checkout *)

\* the card built from the normalized, split cc string (lines 87-93, 167-173)
GetCard(parts) ==
    [number |-> parts[1], month |-> parts[2],
     year |-> GatewayYear(parts[3]), cvv |-> parts[4], name |-> <<"Test User">>]

GetProfile ==
    [firstName |-> <<"Test">>, lastName |-> <<"User">>,
     email |-> <<"legendxkeygrid@gmail.com">>]

\* the handler up to `new ShopifyCheckout`; proxy is the proxy handed to the
\* engine (null for /autog, proxy || null for /checkout)
GetPrepare(q, proxy) ==
    IF Falsy(q.cc) \/ Falsy(q.site)
    THEN Early(400, Envelope("Error", <<"Missing required params: cc, site">>))
    ELSE IF SiteThrows(q.site) THEN Throw(NotAFunction)
    ELSE LET parts == Split(CollapseRuns(q.cc, CcSeparators), "|")
         IN IF Len(parts) < 4
            THEN Early(400, Envelope("Error",
                                     <<"Invalid card format. Use: NUMBER|MM|YYYY|CVV">>))
            ELSE Construct([domain |-> DomainOf(q.site), card |-> GetCard(parts),
                            profile |-> GetProfile, proxy |-> proxy,
                            debug |-> DebugFlag(q.debug)], "run")

AutogPrepare(q) == GetPrepare(q, JsNull)
GetCheckoutPrepare(q) == GetPrepare(q, Or(q.proxy, JsNull))

\* an envelope that reports a Declined result as "Error"
GetAnswerStrict(result) ==
    [status |-> 200,
     body |-> [Status |-> IF result.success = JsTrue THEN "Success" ELSE "Error",
               Gateway |-> Or(result.gateway, <<"NONE">>),
               Price |-> Or(result.total, JsNull),
               response |-> Or(result.response, result.status),
               Retries |-> 0]]

\* the envelope a result of run() is mapped to (lines 110-116, 190-196)
GetAnswer(result) ==
    [status |-> 200,
     body |-> [Status |-> IF result.success = JsTrue THEN "Success"
                          ELSE IF result.status = <<"Declined">> THEN "Success"
                          ELSE "Error",
               Gateway |-> Or(result.gateway, <<"NONE">>),
               Price |-> Or(result.total, JsNull),
               response |-> Or(result.response, result.status),
               Retries |-> 0]]

\* the catch block (lines 118-126, 198-206)
GetFailure(message) == [status |-> 500, body |-> Envelope("Error", message)]

----
(* server.js: POST /checkout and POST /test-card *)

\* the card with number and cvv exchanged
PostCardSwapped(card) ==
    IF card.kind = "string"
    THEN LET parts == Split(card.str, "|")
         IN [number |-> At(parts, 1), month |-> At(parts, 3), year |-> At(parts, 2),
             cvv |-> At(parts, 4), name |-> <<"Test User">>]
    ELSE card.obj

\* a card given as a string is parsed; any other card is passed on as it is
\* (lines 234-244, 290-300)
PostCard(card) ==
    IF card.kind = "string"
    THEN LET parts == Split(card.str, "|")
         IN [number |-> At(parts, 1), month |-> At(parts, 2), year |-> At(parts, 3),
             cvv |-> At(parts, 4), name |-> <<"Test User">>]
    ELSE card.obj

\* !card
NoCard(card) == card.kind = "undefined" \/ (card.kind = "string" /\ card.str = <<>>)

MissingDomainCard == [error |-> <<"Missing required fields: domain, card">>]

PostCheckoutPrepare(b) ==
    IF Falsy(b.domain) \/ NoCard(b.card)
    THEN Early(400, MissingDomainCard)
    ELSE Construct([domain |-> b.domain, card |-> PostCard(b.card),
                    profile |-> Or(b.profile, EmptyObject),
                    address |-> Or(b.address, Undef),
                    proxy |-> Or(b.proxy, JsNull),
                    telegramToken |-> Or(b.telegramToken, Undef),
                    telegramChatId |-> Or(b.telegramChatId, Undef),
                    debug |-> Or(b.debug, JsFalse)], "run")

TestCardProfile ==
    <<"{ firstName: 'Test', lastName: 'User', email: 'test@test.com' }">>

TestCardPrepare(b) ==
    IF Falsy(b.domain) \/ NoCard(b.card)
    THEN Early(400, MissingDomainCard)
    ELSE Construct([domain |-> b.domain, card |-> PostCard(b.card),
                    profile |-> Or(b.profile, TestCardProfile),
                    proxy |-> Or(b.proxy, JsNull),
                    debug |-> Or(b.debug, JsFalse)], "testCard")

----
(* server.js: POST /tokenize, POST /solve-captcha, POST /captcha-config *)

\* !card || !card.number
TokenizePrepare(b) ==
    IF NoCard(b.card) \/ b.card.kind = "string" \/ Falsy(b.card.obj.number)
    THEN Early(400, [error |-> <<"Missing card data">>])
    ELSE Construct([domain |-> <<"checkout.shopify.com">>, card |-> b.card.obj],
                   "tokenizeCard")

DefaultSitekey == <<"f2f75c28-d7b0-4d37-93d6-93e0c38499bf">>
DefaultHost == <<"checkout.shopify.com">>

SolveCaptchaPrepare(b) ==
    Construct([sitekey |-> Or(b.sitekey, DefaultSitekey), host |-> Or(b.host, DefaultHost),
               userAgent |-> b.userAgent], "solve")

CaptchaConfigPrepare(b) ==
    Construct([sitekey |-> Or(b.sitekey, DefaultSitekey), host |-> Or(b.host, DefaultHost)],
              "getSiteConfig")

----
(* server.js: what each single-call endpoint answers *)

Prepare(endpoint, b) ==
    CASE endpoint = "GET /autog" -> AutogPrepare(b)
      [] endpoint = "GET /checkout" -> GetCheckoutPrepare(b)
      [] endpoint = "POST /checkout" -> PostCheckoutPrepare(b)
      [] endpoint = "POST /test-card" -> TestCardPrepare(b)
      [] endpoint = "POST /tokenize" -> TokenizePrepare(b)
      [] endpoint = "POST /solve-captcha" -> SolveCaptchaPrepare(b)
      [] endpoint = "POST /captcha-config" -> CaptchaConfigPrepare(b)

\* res.json(...) after the awaited operation resolved with result
Answer(endpoint, result) ==
    CASE endpoint \in {"GET /autog", "GET /checkout"} -> GetAnswer(result)
      [] endpoint = "POST /tokenize" ->
            [status |-> 200, body |-> [success |-> JsTrue, token |-> result]]
      [] OTHER -> [status |-> 200, body |-> result]

\* a handler without a catch block: the exception escapes
CatchMissing(endpoint, message) == [crash |-> TRUE, res |-> NotYet]

\* the catch block of each handler, entered with an Error whose message is
\* `message`; crash tells an exception that escapes the handler
Catch(endpoint, message) ==
    [crash |-> FALSE,
     res |-> CASE endpoint \in {"GET /autog", "GET /checkout"} -> GetFailure(message)
               [] endpoint = "POST /test-card" ->
                     [status |-> 500, body |-> [live |-> JsFalse, error |-> message]]
               [] endpoint = "POST /captcha-config" ->
                     [status |-> 500, body |-> [error |-> message]]
               [] OTHER ->
                     [status |-> 500, body |-> [success |-> JsFalse, error |-> message]]]

----
(* server.js: POST /bulk-checkout *)

\* setTimeout(r, 2000)
PauseMs == 2000

TypeErrorMessage == <<"TypeError">>
EngineFailure == <<"engine failure">>

\* card.number.slice(-4) in the try block: throws a TypeError when card is
\* null or card.number is not a string
TagThrows(card) == card = Null \/ card.number \in {Undef, JsNumber}

BulkEntry(card, result) == [card |-> SliceLast4(card.number), success |-> result.success]

\* the per-card catch block (lines 488-494): card.number?.slice(-4) || 'unknown'
\* guards a missing number only, so it throws again when card is null or
\* card.number is not a string
CatchRethrows(card) == card = Null \/ card.number = JsNumber

CatchEntry(card, message) ==
    [card |-> IF card.number = Undef THEN <<"unknown">>
              ELSE Or(SliceLast4(card.number), <<"unknown">>),
     success |-> FALSE, error |-> message]

RECURSIVE CountSuccess(_)
CountSuccess(rs) ==
    IF rs = <<>> THEN 0
    ELSE (IF rs[Len(rs)].success THEN 1 ELSE 0) + CountSuccess(SubSeq(rs, 1, Len(rs) - 1))

\* lines 497-502
BulkAnswer(cards, rs) ==
    [status |-> 200,
     body |-> [total |-> Len(cards), successful |-> CountSuccess(rs),
               failed |-> Len(rs) - CountSuccess(rs), results |-> rs]]

BulkArgs(b, card) ==
    [domain |-> b.domain, card |-> card, profile |-> Or(b.profile, EmptyObject)]

----
(* server.js: the requests drawn as inputs, and the results of the engine *)

CardPrefix(f, k) ==
    CASE k = 1 -> f.number
      [] k = 2 -> f.number \o <<"|">> \o f.month
      [] k = 3 -> f.number \o <<"|">> \o f.month \o <<"|">> \o f.year
      [] OTHER -> CardString(f)

CcInputs == {Undef} \cup {CardPrefix(f, k) : f \in FieldTuples, k \in {2, 4}}

GetRests ==
    {[site |-> <<"d">>, proxy |-> Undef, debug |-> <<"1">>],
     [site |-> Https \o <<"d", "/", "x">>, proxy |-> <<"host:port:user:pass">>,
      debug |-> Undef]}

GetQueries ==
    {[cc |-> c, site |-> r.site, proxy |-> r.proxy, debug |-> r.debug] :
        c \in CcInputs, r \in GetRests}
        \cup {[cc |-> c, site |-> Undef, proxy |-> Undef, debug |-> Undef] :
                 c \in {Undef, <<"4", "|", "1", "|", "2", "2", "|", "3">>}}
        \cup {[cc |-> c, site |-> SiteArray, proxy |-> Undef, debug |-> Undef] :
                 c \in {<<"4", "|", "1">>, <<"4", "|", "1", "|", "2", "2", "|", "3">>}}

StringCard(f) == [kind |-> "string", str |-> CardString(f)]
ObjectCard(f) ==
    [kind |-> "object",
     obj |-> [number |-> f.number, month |-> f.month, year |-> f.year, cvv |-> f.cvv]]

CardInputs ==
    {[kind |-> "undefined"]}
        \cup {StringCard(f) : f \in FieldTuples} \cup {ObjectCard(f) : f \in FieldTuples}

PostRests ==
    {[domain |-> <<"d">>, variantId |-> Undef, profile |-> Undef, address |-> Undef,
      proxy |-> Undef, telegramToken |-> Undef, telegramChatId |-> Undef,
      debug |-> Undef],
     [domain |-> <<"d">>, variantId |-> <<"v">>, profile |-> <<"profile">>,
      address |-> <<"address">>, proxy |-> <<"user:pass@host:port">>,
      telegramToken |-> <<"token">>, telegramChatId |-> <<"chat">>, debug |-> JsTrue]}

PostBody(r, c) ==
    [domain |-> r.domain, variantId |-> r.variantId, card |-> c, profile |-> r.profile,
     address |-> r.address, proxy |-> r.proxy, telegramToken |-> r.telegramToken,
     telegramChatId |-> r.telegramChatId, debug |-> r.debug]

PostBodies ==
    {PostBody(r, c) : c \in CardInputs, r \in PostRests}
        \cup {PostBody([r EXCEPT !.domain = Undef], c) :
                 r \in PostRests,
                 c \in {[kind |-> "undefined"],
                        [kind |-> "string", str |-> <<"4", "|", "1", "|", "2", "2", "|", "3">>]}}

TokenizeBodies ==
    {[card |-> c] :
        c \in {[kind |-> "undefined"],
               [kind |-> "object", obj |-> [number |-> Undef]],
               [kind |-> "object", obj |-> [number |-> <<"4", "1">>]]}}

CaptchaBodies ==
    {[sitekey |-> Undef, host |-> Undef, userAgent |-> Undef],
     [sitekey |-> <<"key">>, host |-> <<"host">>, userAgent |-> <<"ua">>]}

\* a card of a `cards` array: null, an object without number, with a string
\* number (empty, shorter and longer than 4), with a numeric number
BulkCards ==
    {Null, [number |-> Undef], [number |-> <<>>], [number |-> <<"4", "1">>],
     [number |-> <<"4", "1", "1", "1", "2">>], [number |-> JsNumber]}

BulkCardLists == UNION {[1..k -> BulkCards] : k \in 0..MaxCards}

BulkBodies ==
    {[domain |-> <<"d">>, variantId |-> <<"v">>, profile |-> Undef,
      cards |-> [kind |-> "array", items |-> l]] : l \in BulkCardLists}
        \cup {[domain |-> Undef, variantId |-> <<"v">>, profile |-> Undef,
               cards |-> [kind |-> "array", items |-> <<>>]],
              [domain |-> <<"d">>, variantId |-> Undef, profile |-> <<"profile">>,
               cards |-> [kind |-> "array", items |-> <<>>]],
              [domain |-> <<"d">>, variantId |-> <<"v">>, profile |-> <<"profile">>,
               cards |-> [kind |-> "undefined", items |-> <<>>]],
              [domain |-> <<"d">>, variantId |-> <<"v">>, profile |-> <<"profile">>,
               cards |-> [kind |-> "object", items |-> <<>>]]}

\* what run() resolves with for the GET endpoints
Statuses ==
    {<<"Charged">>, <<"Live">>, <<"3DS">>, <<"Declined">>, <<"Error">>, <<"Unknown">>}

\* the Checkout Results run() resolves with: success, one of the six
\* statuses, the gateway name or none; a successful result also has a total
\* and a response text
RunResults ==
    {[success |-> ok, status |-> st, gateway |-> gw,
      total |-> IF ok = JsTrue THEN <<"9.99">> ELSE Undef,
      response |-> IF ok = JsTrue THEN <<"thank you">> ELSE Undef] :
        ok \in {JsTrue, JsFalse}, st \in Statuses, gw \in {<<"gw">>, Undef}}

\* what the awaited operation of each endpoint resolves with
ResultsOf(endpoint) ==
    CASE endpoint \in {"GET /autog", "GET /checkout"} -> RunResults
      [] endpoint = "POST /tokenize" -> {<<"token">>}
      [] OTHER -> {<<"result A">>, <<"result B">>}

BulkResults == [success : BOOLEAN]

----
(* server.js: the handlers *)

SingleCall ==
    {"GET /autog", "GET /checkout", "POST /checkout", "POST /test-card",
     "POST /tokenize", "POST /solve-captcha", "POST /captcha-config"}

GatewayInit ==
    /\ gpc = "idle" /\ req = NotYet /\ ctorLog = <<>> /\ opLog = <<>> /\ bi = 1
    /\ results = <<>> /\ res = NotYet /\ alive = TRUE /\ failed = FALSE
    /\ POff /\ HOff

\* the handler caught (or did not catch) an exception: the answer, or the
\* crash of the process on the unhandled rejection
Caught(c) ==
    /\ res' = c.res
    /\ gpc' = IF c.crash THEN "crashed" ELSE "done"
    /\ alive' = ~c.crash

\* the server is up and listening (app.listen) and no request is being handled
Listening == gpc = "idle" /\ alive

\* a handler with one dependency call, from the request to its first await:
\* validation, then the dependency's constructor, then the call
Receive(endpoint, b, ctorThrows) ==
    /\ req' = [endpoint |-> endpoint, body |-> b]
    /\ LET prep == Prepare(endpoint, b)
       IN IF prep.kind = "early"
          THEN /\ res' = prep.res /\ gpc' = "done"
               /\ UNCHANGED <<ctorLog, opLog, alive>>
          ELSE IF prep.kind = "throw"
          THEN /\ Caught(Catch(endpoint, prep.message))
               /\ UNCHANGED <<ctorLog, opLog>>
          ELSE IF ctorThrows
          THEN /\ Caught(Catch(endpoint, EngineFailure))
               /\ opLog' = <<[ev |-> "throw", op |-> "constructor", card |-> 0]>>
               /\ UNCHANGED ctorLog
          ELSE /\ ctorLog' = <<prep.args>>
               /\ opLog' = <<[ev |-> "start", op |-> prep.op, card |-> 0]>>
               /\ gpc' = "engine"
               /\ UNCHANGED <<res, alive>>
    /\ UNCHANGED <<bi, results, failed, pvars, hvars>>

ReceiveAutog ==
    Listening /\ \E q \in GetQueries, t \in BOOLEAN : Receive("GET /autog", q, t)
ReceiveGetCheckout ==
    Listening /\ \E q \in GetQueries, t \in BOOLEAN : Receive("GET /checkout", q, t)
ReceivePostCheckout ==
    Listening /\ \E b \in PostBodies, t \in BOOLEAN : Receive("POST /checkout", b, t)
ReceiveTestCard ==
    Listening /\ \E b \in PostBodies, t \in BOOLEAN : Receive("POST /test-card", b, t)
ReceiveTokenize ==
    Listening /\ \E b \in TokenizeBodies, t \in BOOLEAN : Receive("POST /tokenize", b, t)
ReceiveSolveCaptcha ==
    Listening /\ \E b \in CaptchaBodies, t \in BOOLEAN :
                    Receive("POST /solve-captcha", b, t)
ReceiveCaptchaConfig ==
    Listening /\ \E b \in CaptchaBodies, t \in BOOLEAN :
                    Receive("POST /captcha-config", b, t)

\* the awaited operation resolves: the handler answers
OpResolves ==
    /\ gpc = "engine" /\ req.endpoint \in SingleCall
    /\ \E result \in ResultsOf(req.endpoint) :
          /\ res' = Answer(req.endpoint, result)
          /\ opLog' = Append(opLog, [ev |-> "resolve", op |-> opLog[Len(opLog)].op,
                                     card |-> 0, result |-> result])
    /\ gpc' = "done"
    /\ UNCHANGED <<req, ctorLog, bi, results, alive, failed, pvars, hvars>>

\* the awaited operation rejects: the catch block answers
OpRejects ==
    /\ gpc = "engine" /\ req.endpoint \in SingleCall
    /\ Caught(Catch(req.endpoint, EngineFailure))
    /\ opLog' = Append(opLog, [ev |-> "reject", op |-> opLog[Len(opLog)].op, card |-> 0])
    /\ UNCHANGED <<req, ctorLog, bi, results, failed, pvars, hvars>>

\* POST /bulk-checkout up to the loop (lines 460-469)
ReceiveBulk ==
    /\ Listening
    /\ \E b \in BulkBodies :
         /\ req' = [endpoint |-> "POST /bulk-checkout", body |-> b]
         /\ IF Falsy(b.domain) \/ Falsy(b.variantId) \/ b.cards.kind # "array"
            THEN /\ res' = [status |-> 400,
                            body |-> [error |->
                               <<"Missing required fields: domain, variantId, cards (array)">>]]
                 /\ gpc' = "done"
            ELSE /\ gpc' = "loop"
                 /\ UNCHANGED res
    /\ bi' = 1
    /\ results' = <<>>
    /\ UNCHANGED <<ctorLog, opLog, alive, failed, pvars, hvars>>

\* the per-card catch block: the entry is pushed and the loop goes on, or the
\* catch block throws itself and the outer catch (lines 504-509) answers
BulkCatch(card, message) ==
    IF CatchRethrows(card)
    THEN /\ Caught(Catch("POST /bulk-checkout", TypeErrorMessage))
         /\ UNCHANGED <<results, bi>>
    ELSE /\ results' = Append(results, CatchEntry(card, message))
         /\ bi' = bi + 1
         /\ gpc' = "loop"
         /\ UNCHANGED <<res, alive>>

\* the head of the loop: the answer after the last card; else the engine is
\* constructed for the next card and its checkout is called
BulkNext(ctorThrows) ==
    /\ gpc = "loop"
    /\ LET cards == req.body.cards.items
       IN IF bi > Len(cards)
          THEN /\ res' = BulkAnswer(cards, results)
               /\ gpc' = "done"
               /\ UNCHANGED <<ctorLog, opLog, bi, results, alive>>
          ELSE IF ctorThrows
          THEN /\ BulkCatch(cards[bi], EngineFailure)
               /\ opLog' = Append(opLog, [ev |-> "throw", op |-> "constructor", card |-> bi])
               /\ UNCHANGED ctorLog
          ELSE /\ ctorLog' = Append(ctorLog, BulkArgs(req.body, cards[bi]))
               /\ opLog' = Append(opLog, [ev |-> "start", op |-> "checkout", card |-> bi])
               /\ gpc' = "engine"
               /\ UNCHANGED <<res, bi, results, alive>>
    /\ UNCHANGED <<req, failed, pvars, hvars>>

\* checkout(variantId) resolves: the entry is tagged and pushed and the pause
\* starts; a TypeError of the tagging enters the catch block
BulkCheckoutResolves ==
    /\ gpc = "engine" /\ req.endpoint = "POST /bulk-checkout"
    /\ opLog' = Append(opLog, [ev |-> "resolve", op |-> "checkout", card |-> bi])
    /\ LET card == req.body.cards.items[bi]
       IN \E result \in BulkResults :
            IF TagThrows(card)
            THEN BulkCatch(card, TypeErrorMessage)
            ELSE /\ results' = Append(results, BulkEntry(card, result))
                 /\ gpc' = "pause"
                 /\ UNCHANGED <<res, bi, alive>>
    /\ UNCHANGED <<req, ctorLog, failed, pvars, hvars>>

\* checkout(variantId) rejects: the catch block
BulkCheckoutRejects ==
    /\ gpc = "engine" /\ req.endpoint = "POST /bulk-checkout"
    /\ opLog' = Append(opLog, [ev |-> "reject", op |-> "checkout", card |-> bi])
    /\ BulkCatch(req.body.cards.items[bi], EngineFailure)
    /\ UNCHANGED <<req, ctorLog, failed, pvars, hvars>>

\* the 2-second timer fires: the next iteration
PauseElapses ==
    /\ gpc = "pause"
    /\ opLog' = Append(opLog, [ev |-> "pause", op |-> "setTimeout", card |-> PauseMs])
    /\ bi' = bi + 1
    /\ gpc' = "loop"
    /\ UNCHANGED <<req, ctorLog, results, res, alive, failed, pvars, hvars>>

\* a dependency raised while the current request was handled
Raised == \E k \in 1..Len(opLog) : opLog[k].ev \in {"throw", "reject"}

\* the response has been sent: the server waits for the next request
Answered ==
    /\ gpc = "done"
    /\ gpc' = "idle"
    /\ req' = NotYet /\ res' = NotYet /\ ctorLog' = <<>> /\ opLog' = <<>>
    /\ bi' = 1 /\ results' = <<>>
    /\ failed' = (failed \/ Raised)
    /\ UNCHANGED <<alive, pvars, hvars>>

GatewayNext ==
    \/ ReceiveAutog
    \/ ReceiveGetCheckout
    \/ ReceivePostCheckout
    \/ ReceiveTestCard
    \/ ReceiveTokenize
    \/ ReceiveSolveCaptcha
    \/ ReceiveCaptchaConfig
    \/ OpResolves
    \/ OpRejects
    \/ ReceiveBulk
    \/ \E ctorThrows \in BOOLEAN : BulkNext(ctorThrows)
    \/ BulkCheckoutResolves
    \/ BulkCheckoutRejects
    \/ PauseElapses
    \/ Answered

SpecGateway == GatewayInit /\ [][GatewayNext]_vars

----
(* test_parallel.js: the harness *)

\* the card strings a card list is drawn from: one well-formed, one with no
\* separators
\* a well-formed entry of CARDS
HarnessCards1 == <<"4", "1", "1", "1", "2", "2", "2", "|", "1", "|", "2", "2", "|", "3">>

HarnessCards == {HarnessCards1, <<"4", "1", "1">>}

CardLists == UNION {[1..k -> HarnessCards] : k \in 0..MaxCards}

\* result.status as run() may report it: the five names, unrecognized strings
\* (one of them the name of a property every object inherits), the empty
\* string, and no status at all
AbsentStatus == "<absent>"
EngineStatuses ==
    {"Charged", "Live", "3DS", "Declined", "Error", "Unknown", "Pending",
     "constructor", "", AbsentStatus}

EngineResult(s) ==
    [status |-> s, message |-> "engine message", gateway |-> "gw",
     total |-> "9.99", time |-> "1s"]

ErrorMessage == "engine failure"

\* `${card.number.slice(0,6)}****${card.number.slice(-4)}`
MaskedCard(card) ==
    SubSeq(card.number, 1, IF Len(card.number) < 6 THEN Len(card.number) ELSE 6)
        \o <<"*", "*", "*", "*">> \o SliceLast4(card.number)

InvalidRecord(ccString, i) ==
    [card |-> ccString, status |-> "Error", message |-> "Invalid card format",
     index |-> i - 1]

ResultRecord(ccString, i, result) ==
    [index |-> i, card |-> MaskedCard(parseCard(ccString)), fullCard |-> ccString,
     status |-> result.status, message |-> result.message,
     gateway |-> result.gateway, total |-> result.total, time |-> result.time]

ErrorRecord(ccString, i, message) ==
    [index |-> i, card |-> MaskedCard(parseCard(ccString)), fullCard |-> ccString,
     status |-> "Error", message |-> message, time |-> "0s"]

BucketNames == {"Charged", "Live", "3DS", "Declined", "Error", "Unknown"}

\* the properties the object literal `grouped` inherits from Object.prototype
InheritedNames ==
    {"constructor", "toString", "toLocaleString", "valueOf", "hasOwnProperty",
     "isPrototypeOf", "propertyIsEnumerable", "__proto__"}

EmptyGroups == [b \in BucketNames |-> <<>>]

\* result.status || 'Unknown'
StatusOrUnknown(status) ==
    IF status \in {"", AbsentStatus} THEN "Unknown" ELSE status

HarnessInit ==
    /\ CARDS \in CardLists
    /\ li = 1
    /\ att = [i \in 1..Len(CARDS) |-> "notcalled"]
    /\ rec = [i \in 1..Len(CARDS) |-> NotYet]
    /\ engines = {}
    /\ hpc = "start"
    /\ grouped = EmptyGroups
    /\ gi = 1
    /\ printed = <<>>
    /\ POff /\ GOff

\* runParallelTests, up to CARDS.map: the banner
Start ==
    /\ hpc = "start"
    /\ hpc' = "map"
    /\ printed' = Append(printed, "banner")
    /\ UNCHANGED <<CARDS, li, att, rec, engines, grouped, gi, pvars, gvars>>

\* testCard(CARDS[li], li - 1) up to its first await, called by CARDS.map.
\* The engine's constructor is called outside the try block: when it throws,
\* the promise testCard returns is rejected.
TestCardCall(ctorThrows) ==
    /\ hpc = "map" /\ li <= Len(CARDS)
    /\ IF parseCard(CARDS[li]) = Null
       THEN /\ att' = [att EXCEPT ![li] = "resolved"]
            /\ rec' = [rec EXCEPT ![li] = InvalidRecord(CARDS[li], li)]
            /\ UNCHANGED engines
       ELSE IF ctorThrows
       THEN /\ att' = [att EXCEPT ![li] = "rejected"]
            /\ UNCHANGED <<rec, engines>>
       ELSE /\ att' = [att EXCEPT ![li] = "running"]
            /\ engines' = engines \cup {li}
            /\ UNCHANGED rec
    /\ li' = li + 1
    /\ UNCHANGED <<CARDS, hpc, grouped, gi, printed, pvars, gvars>>

\* CARDS.map has returned: runParallelTests awaits Promise.all(promises)
AwaitAll ==
    /\ hpc = "map" /\ li > Len(CARDS)
    /\ hpc' = "await"
    /\ UNCHANGED <<CARDS, li, att, rec, engines, grouped, gi, printed, pvars, gvars>>

\* a run that settles while CARDS.map is still calling testCard
RunResolvesEarly(i, result) ==
    /\ att[i] = "running"
    /\ att' = [att EXCEPT ![i] = "resolved"]
    /\ rec' = [rec EXCEPT ![i] = ResultRecord(CARDS[i], i, result)]
    /\ UNCHANGED <<CARDS, li, engines, hpc, grouped, gi, printed, pvars, gvars>>

\* checkout.run() of attempt i resolves: testCard returns the record. The
\* continuation of an await runs only after the synchronous CARDS.map returned.
RunResolves(i, result) ==
    /\ hpc # "map" /\ att[i] = "running"
    /\ att' = [att EXCEPT ![i] = "resolved"]
    /\ rec' = [rec EXCEPT ![i] = ResultRecord(CARDS[i], i, result)]
    /\ UNCHANGED <<CARDS, li, engines, hpc, grouped, gi, printed, pvars, gvars>>

\* checkout.run() of attempt i rejects: the catch block returns an Error record
RunRejects(i) ==
    /\ hpc # "map" /\ att[i] = "running"
    /\ att' = [att EXCEPT ![i] = "resolved"]
    /\ rec' = [rec EXCEPT ![i] = ErrorRecord(CARDS[i], i, ErrorMessage)]
    /\ UNCHANGED <<CARDS, li, engines, hpc, grouped, gi, printed, pvars, gvars>>

\* Promise.all rejects with the first rejected promise: runParallelTests
\* rejects and main's catch(console.error) logs it
AllRejects ==
    /\ hpc = "await" /\ \E i \in 1..Len(CARDS) : att[i] = "rejected"
    /\ hpc' = "rejected"
    /\ UNCHANGED <<CARDS, li, att, rec, engines, grouped, gi, printed, pvars, gvars>>

\* Promise.all resolves: the results header is printed, grouping starts
AllResolve ==
    /\ hpc = "await" /\ \A i \in 1..Len(CARDS) : att[i] = "resolved"
    /\ hpc' = "group"
    /\ gi' = 1
    /\ printed' = Append(printed, "results header")
    /\ UNCHANGED <<CARDS, li, att, rec, engines, grouped, pvars, gvars>>

\* one iteration of `for (const result of results)`: grouped[status] is a
\* property lookup, so an inherited property is found too, and has no push
GroupOne ==
    /\ hpc = "group" /\ gi <= Len(CARDS)
    /\ LET status == StatusOrUnknown(rec[gi].status)
       IN IF status \in BucketNames
          THEN /\ grouped' = [grouped EXCEPT ![status] = Append(@, gi)]
               /\ gi' = gi + 1
               /\ UNCHANGED hpc
          ELSE IF status \in InheritedNames
          THEN /\ hpc' = "threw"
               /\ UNCHANGED <<grouped, gi>>
          ELSE /\ grouped' = [grouped EXCEPT !["Unknown"] = Append(@, gi)]
               /\ gi' = gi + 1
               /\ UNCHANGED hpc
    /\ UNCHANGED <<CARDS, li, att, rec, engines, printed, pvars, gvars>>

PrintTable ==
    /\ hpc = "group" /\ gi > Len(CARDS)
    /\ hpc' = "summary"
    /\ printed' = Append(printed, "table")
    /\ UNCHANGED <<CARDS, li, att, rec, engines, grouped, gi, pvars, gvars>>

PrintSummary ==
    /\ hpc = "summary"
    /\ hpc' = "listings"
    /\ printed' = Append(printed, "summary")
    /\ UNCHANGED <<CARDS, li, att, rec, engines, grouped, gi, pvars, gvars>>

\* the two card listings, then `return results`
PrintListings ==
    /\ hpc = "listings"
    /\ hpc' = "done"
    /\ printed' = printed
          \o (IF Len(grouped["Charged"]) > 0 \/ Len(grouped["Live"]) > 0
                    \/ Len(grouped["3DS"]) > 0
              THEN <<"live cards">> ELSE <<>>)
          \o (IF Len(grouped["Declined"]) > 0 THEN <<"declined cards">> ELSE <<>>)
    /\ UNCHANGED <<CARDS, li, att, rec, engines, grouped, gi, pvars, gvars>>

HarnessNext ==
    \/ Start
    \/ \E ctorThrows \in BOOLEAN : TestCardCall(ctorThrows)
    \/ AwaitAll
    \/ \E i \in 1..Len(CARDS), s \in EngineStatuses : RunResolves(i, EngineResult(s))
    \/ \E i \in 1..Len(CARDS) : RunRejects(i)
    \/ AllRejects
    \/ AllResolve
    \/ GroupOne
    \/ PrintTable
    \/ PrintSummary
    \/ PrintListings

SpecHarness == HarnessInit /\ [][HarnessNext]_vars

----
(* test_parallel.js: a card list longer than CONFIG.maxConcurrent *)

\* CONFIG.maxConcurrent (line 12); no statement of the harness reads it
maxConcurrent == 10

LaunchCards == maxConcurrent + 1

\* lists of LaunchCards cards: all well-formed, or the first one malformed
LaunchLists ==
    {[i \in 1..LaunchCards |-> HarnessCards1],
     [i \in 1..LaunchCards |-> IF i = 1 THEN <<"4", "1", "1">> ELSE HarnessCards1]}

LaunchInit ==
    /\ CARDS \in LaunchLists
    /\ li = 1
    /\ att = [i \in 1..Len(CARDS) |-> "notcalled"]
    /\ rec = [i \in 1..Len(CARDS) |-> NotYet]
    /\ engines = {}
    /\ hpc = "start"
    /\ grouped = EmptyGroups
    /\ gi = 1
    /\ printed = <<>>
    /\ POff /\ GOff

\* the runs settle in any order, each with a Charged result
LaunchNext ==
    \/ Start
    \/ \E ctorThrows \in BOOLEAN : TestCardCall(ctorThrows)
    \/ AwaitAll
    \/ \E i \in 1..Len(CARDS) : RunResolves(i, EngineResult("Charged"))
    \/ AllRejects
    \/ AllResolve
    \/ GroupOne
    \/ PrintTable
    \/ PrintSummary
    \/ PrintListings

SpecLaunch == LaunchInit /\ [][LaunchNext]_vars

----
(* Card-string parsing: parseCard of the harness and POST /parse-card of    *)
(* the gateway applied to the same card string.                             *)

ParseInit ==
    /\ pIn \in FieldTuples /\ pHarness = NotYet /\ pGateway = NotYet
    /\ GOff /\ HOff

HarnessParse ==
    /\ pIn # NotYet /\ pHarness = NotYet
    /\ pHarness' = parseCard(CardString(pIn))
    /\ UNCHANGED <<pIn, pGateway, gvars, hvars>>

GatewayParse ==
    /\ pIn # NotYet /\ pGateway = NotYet
    /\ pGateway' = ParseCardRoute(CardString(pIn))
    /\ UNCHANGED <<pIn, pHarness, gvars, hvars>>

ParseNext == HarnessParse \/ GatewayParse

SpecParse == ParseInit /\ [][ParseNext]_vars

----
(* C1, C2, C4, C5, C8, C9: the gateway *)

\* the answer is a 500 whose body has an `error` field
HasErrorField == res.status = 500 /\ "error" \in DOMAIN res.body

\* C1, as stated: at every JSON endpoint that calls a dependency, when the
\* dependency raises the request is answered 500 with an `error` field, and
\* the server stays up.
C1_AsStated ==
    /\ alive
    /\ (gpc = "done" /\ Raised) => HasErrorField

\* C1, amended: when the dependency raises an Error, the server stays up and
\* the request is answered: by POST /checkout, /test-card, /tokenize,
\* /solve-captcha and /captcha-config with 500 and an `error` field holding the
\* message; by GET /autog and GET /checkout with 500 and the envelope
\* Status "Error", Gateway "NONE", `response` holding the message and no
\* `error` field; by POST /bulk-checkout with 200 and, for each failing card,
\* an entry with success false and an `error` field, or with 500 and an `error`
\* field when the per-card catch block itself throws.
C1_FailureAnswered ==
    /\ alive /\ gpc # "crashed"
    /\ (gpc = "done" /\ Raised) =>
         CASE req.endpoint \in {"GET /autog", "GET /checkout"} ->
                 /\ res.status = 500 /\ "error" \notin DOMAIN res.body
                 /\ res.body.Status = "Error" /\ res.body.Gateway = <<"NONE">>
                 /\ res.body.response = EngineFailure
           [] req.endpoint = "POST /bulk-checkout" ->
                 \/ HasErrorField
                 \/ /\ res.status = 200
                    /\ \A k \in 1..Len(opLog) : opLog[k].ev \in {"throw", "reject"} =>
                         LET entry == res.body.results[opLog[k].card]
                         IN ~entry.success /\ "error" \in DOMAIN entry
                                           /\ entry.error = EngineFailure
           [] OTHER -> HasErrorField /\ res.body.error = EngineFailure

\* after a request whose dependency raised, a later request is answered 200
C1_Witness == failed /\ gpc = "done" /\ res.status = 200

\* the `cards` array of the current /bulk-checkout request
Cards == req.body.cards.items

BulkValid ==
    /\ req # NotYet /\ req.endpoint = "POST /bulk-checkout"
    /\ ~Falsy(req.body.domain) /\ ~Falsy(req.body.variantId)
    /\ req.body.cards.kind = "array"

\* the tag the claim gives card c: its last four digits, "unknown" without a
\* number (for the empty number, either)
TagOk(c, tag) ==
    IF c = Null \/ c.number = Undef THEN tag = <<"unknown">>
    ELSE IF c.number = <<>> THEN tag \in {<<>>, <<"unknown">>}
    ELSE c.number # JsNumber /\ tag = SliceLast4(c.number)

\* C2, as stated: a /bulk-checkout request that passes validation with N
\* cards is answered with exactly N results, entry i tagged with the last
\* four digits of card i or "unknown", total = N, successful + failed = N.
C2_AsStated ==
    (gpc = "done" /\ BulkValid) =>
        /\ res.status = 200
        /\ Len(res.body.results) = Len(Cards)
        /\ \A i \in 1..Len(Cards) : TagOk(Cards[i], res.body.results[i].card)
        /\ res.body.total = Len(Cards)
        /\ res.body.successful + res.body.failed = Len(Cards)

\* the positions of opLog at which checkout was called for a card
Starts == {k \in 1..Len(opLog) : opLog[k].ev = "start"}

\* the positions of opLog at which the try block of a card was entered: the
\* engine was constructed and checkout called, or the constructor threw
Attempts == {k \in 1..Len(opLog) : opLog[k].ev \in {"start", "throw"}}

\* C4, as stated: within one /bulk-checkout request the cards are attempted
\* in the order of the array, one at a time, a failure on card i does not
\* keep cards i+1..N from being attempted, and each card is attempted once.
C4_AsStated ==
    BulkValid =>
        /\ \A j, k \in Attempts : j < k =>
              /\ opLog[j].card < opLog[k].card
              /\ opLog[j].ev = "start" =>
                    \E m \in (j + 1)..(k - 1) : opLog[m].ev \in {"resolve", "reject"}
        /\ gpc = "done" =>
              \A i \in 1..Len(Cards) :
                  Cardinality({k \in Attempts : opLog[k].card = i}) = 1

\* C5, as stated: between any two consecutive attempts of one /bulk-checkout
\* request the 2-second pause takes place, whatever the outcome of the first.
C5_AsStated ==
    BulkValid =>
        \A j, k \in Starts : j < k =>
            \E m \in (j + 1)..(k - 1) : opLog[m].ev = "pause" /\ opLog[m].card = PauseMs

\* the body of the current POST request with its string card given as the
\* explicit object of the same four fields
Twin(b) ==
    [b EXCEPT !.card = ObjectCard(CHOOSE f \in FieldTuples : CardString(f) = b.card.str)]

StringCardSent ==
    /\ gpc = "engine" /\ req.endpoint \in {"POST /checkout", "POST /test-card"}
    /\ req.body.card.kind = "string"

\* C8, as stated: POST /checkout and POST /test-card construct the engine
\* with the same Checkout Request for the card string "N|M|Y|C" and for the
\* object { number: N, month: M, year: Y, cvv: C }.
C8_AsStated ==
    StringCardSent =>
        LET twin == Prepare(req.endpoint, Twin(req.body))
        IN twin.kind = "construct" /\ ctorLog[1] = twin.args

\* C8, amended: the two Checkout Requests agree in every field but the card,
\* the two cards agree in number, month, year and cvv, and the card built
\* from the string also carries the name "Test User", which the object lacks.
C8_SameButName ==
    StringCardSent =>
        LET twin == Prepare(req.endpoint, Twin(req.body))
            sent == ctorLog[1]
        IN /\ twin.kind = "construct"
           /\ twin.op = opLog[1].op
           /\ [sent EXCEPT !.card = twin.args.card] = twin.args
           /\ \A k \in {"number", "month", "year", "cvv"} : sent.card[k] = twin.args.card[k]
           /\ DOMAIN sent.card = DOMAIN twin.args.card \cup {"name"}
           /\ "name" \notin DOMAIN twin.args.card
           /\ sent.card.name = <<"Test User">>

\* the engine was constructed by POST /test-card for a card string with four
\* different, non-empty fields
C8_Witness ==
    /\ StringCardSent /\ req.endpoint = "POST /test-card"
    /\ ctorLog[1].card.number = <<"4", "4">> /\ ctorLog[1].card.month = <<"1">>
    /\ ctorLog[1].card.year = <<"2", "2">> /\ ctorLog[1].card.cvv = <<"3">>

\* the year field of the card string of the current request, as its handler
\* splits the string
SuppliedYear ==
    IF req.endpoint \in {"GET /autog", "GET /checkout"}
    THEN Split(CollapseRuns(req.body.cc, CcSeparators), "|")[3]
    ELSE At(Split(req.body.card.str, "|"), 3)

FromCardString ==
    /\ gpc = "engine"
    /\ \/ req.endpoint \in {"GET /autog", "GET /checkout"}
       \/ /\ req.endpoint \in {"POST /checkout", "POST /test-card"}
          /\ req.body.card.kind = "string"

\* C9, as stated: every Card an entry point of the gateway builds from a card
\* string and hands to the engine has a 2-digit year expanded to "20" + yy.
C9_AsStated ==
    (FromCardString /\ Len(SuppliedYear) = 2) =>
        ctorLog[1].card.year = S20 \o SuppliedYear

----
(* C11, C12: GET /autog and GET /checkout *)

GetRequest == req # NotYet /\ req.endpoint \in {"GET /autog", "GET /checkout"}

\* cc and site are both present and the normalized, split cc has fewer than
\* 4 parts
ShortCc ==
    /\ GetRequest /\ ~Falsy(req.body.cc) /\ ~Falsy(req.body.site)
    /\ Len(Split(CollapseRuns(req.body.cc, CcSeparators), "|")) < 4

\* C11, as stated: GET /autog and GET /checkout with cc and site present
\* answer a cc of fewer than 4 parts with 400, Status "Error" and Gateway
\* "NONE", and create and run no engine for the request.
C11_AsStated ==
    ShortCc =>
        /\ gpc = "done" /\ res.status = 400
        /\ res.body.Status = "Error" /\ res.body.Gateway = <<"NONE">>
        /\ ctorLog = <<>> /\ opLog = <<>>

\* run() of the current GET request resolved and the request is answered
GetResolved ==
    /\ GetRequest /\ gpc = "done"
    /\ opLog # <<>> /\ opLog[Len(opLog)].ev = "resolve"

\* the value run() resolved with
RunResult == opLog[Len(opLog)].result

\* the current request is a GET /checkout without a proxy parameter
NoProxy == GetRequest /\ req.endpoint = "GET /checkout" /\ req.body.proxy = Undef

\* C12: for every result of run(), GET /autog and GET /checkout answer with
\* Status "Success" exactly when the result reports success or has status
\* Declined and "Error" otherwise, with Gateway the result's gateway or "NONE"
\* when it has none, and with Retries 0 (in every answer); and GET /checkout
\* without a proxy builds the Checkout Request and gives the answer GET /autog
\* does for the same cc, site and debug.
C12_Envelope ==
    /\ GetResolved =>
         /\ res.body.Status \in {"Success", "Error"}
         /\ res.body.Status = "Success" <=>
               (RunResult.success = JsTrue \/ RunResult.status = <<"Declined">>)
         /\ res.body.Gateway =
               (IF RunResult.gateway = Undef THEN <<"NONE">> ELSE RunResult.gateway)
    /\ (GetRequest /\ gpc = "done") => res.body.Retries = 0
    /\ NoProxy =>
         LET autog == Prepare("GET /autog", req.body)
         IN /\ gpc = "engine" =>
                 autog.kind = "construct" /\ ctorLog = <<autog.args>>
                                          /\ opLog[1].op = autog.op
            /\ GetResolved => res = Answer("GET /autog", RunResult)
            /\ (gpc = "done" /\ Raised) => res = Catch("GET /autog", EngineFailure).res
            /\ (gpc = "done" /\ opLog = <<>>) =>
                 CASE autog.kind = "early" -> res = autog.res
                   [] autog.kind = "throw" -> res = Catch("GET /autog", autog.message).res
                   [] OTHER -> FALSE

\* GET /checkout, without a proxy, has answered a result that is Declined,
\* not successful and names no gateway
C12_Witness ==
    /\ GetResolved /\ NoProxy
    /\ RunResult.success = JsFalse /\ RunResult.status = <<"Declined">>
    /\ RunResult.gateway = Undef
    /\ res.body.Status = "Success" /\ res.body.Gateway = <<"NONE">>

----
(* C3, C6, C7: the harness *)

RECURSIVE SumLen(_, _)
SumLen(g, names) ==
    IF names = {} THEN 0
    ELSE LET b == CHOOSE x \in names : TRUE
         IN Len(g[b]) + SumLen(g, names \ {b})

InBucket(b, i) == \E k \in 1..Len(grouped[b]) : grouped[b][k] = i

\* C3, as stated: the harness never raises to its caller: whether an attempt
\* fails while the engine instance is built or while run() is awaited, no
\* testCard promise is rejected and runParallelTests does not reject.
C3_AsStated ==
    /\ \A i \in 1..Len(CARDS) : att[i] # "rejected"
    /\ hpc \notin {"rejected", "threw"}

\* C6, as stated: once the results are bucketed, every record lies in exactly
\* one of the six buckets, a record whose status is absent or is not one of
\* the five names lies in Unknown, and the six counts sum to K, whatever
\* status strings the engine reported.
C6_AsStated ==
    /\ hpc # "threw"
    /\ hpc \in {"group", "summary", "listings", "done"} =>
         /\ \A i \in 1..Len(CARDS) : i < gi =>
              /\ Cardinality({b \in BucketNames : InBucket(b, i)}) = 1
              /\ rec[i].status \notin {"Charged", "Live", "3DS", "Declined", "Error"}
                    => InBucket("Unknown", i)
         /\ gi > Len(CARDS) => SumLen(grouped, BucketNames) = Len(CARDS)

\* C7, as stated: for a card list of size K the harness produces exactly K
\* records, one per entry; an entry with fewer than 4 pipe-delimited fields
\* yields the record Error / "Invalid card format" and no engine instance is
\* created for it, while the other entries are attempted.
C7_AsStated ==
    (hpc \notin {"start", "map"} /\ \A i \in 1..Len(CARDS) : att[i] # "running") =>
        \A i \in 1..Len(CARDS) :
            /\ rec[i] # NotYet
            /\ Len(Split(CARDS[i], "|")) < 4 =>
                 /\ rec[i].status = "Error"
                 /\ rec[i].message = "Invalid card format"
                 /\ i \notin engines

----
(* C10 *)

SeparatorFree(s) == \A i \in 1..Len(s) : s[i] \notin {"|", "/"} \cup Whitespace

\* C10, as stated: for every card string N|M|Y|C whose year field Y has
\* exactly 2 characters, parseCard of the harness and POST /parse-card of the
\* gateway both yield the year "20" followed by Y (stated here for the card
\* strings whose number and cvv are not empty and whose month is one or more
\* digits).
C10_AsStated ==
    (/\ pIn # NotYet /\ Len(pIn.year) = 2
     /\ pIn.number # <<>> /\ pIn.cvv # <<>>
     /\ pIn.month # <<>> /\ IsDigits(pIn.month)) =>
        /\ pHarness # NotYet =>
               (pHarness # Null /\ pHarness.year = S20 \o pIn.year)
        /\ pGateway # NotYet =>
               (pGateway.status = 200 /\ pGateway.body.year = S20 \o pIn.year)

\* C10, amended: for every card string N|M|Y|C (fields without '|') whose
\* year field Y has exactly 2 characters, parseCard of the harness yields the
\* year "20" followed by Y; POST /parse-card yields it when N and M hold
\* neither whitespace nor '/' and M is not empty.
C10_YearExpanded ==
    (pIn # NotYet /\ Len(pIn.year) = 2) =>
        /\ pHarness # NotYet =>
               (pHarness # Null /\ pHarness.year = S20 \o pIn.year)
        /\ (/\ pGateway # NotYet
            /\ SeparatorFree(pIn.number) /\ SeparatorFree(pIn.month)
            /\ pIn.month # <<>>) =>
               (pGateway.status = 200 /\ pGateway.body.year = S20 \o pIn.year)

\* a card string with clean fields and a 2-digit year has been parsed by both
C10_Witness ==
    /\ pIn # NotYet /\ Len(pIn.year) = 2
    /\ SeparatorFree(pIn.number) /\ pIn.number # <<>>
    /\ SeparatorFree(pIn.month) /\ pIn.month # <<>>
    /\ pHarness # NotYet /\ pGateway # NotYet

----
(* C13 *)

WellFormed(i) == parseCard(CARDS[i]) # Null

ReportParts == {"table", "summary", "live cards", "declined cards"}

Reported == \E k \in 1..Len(printed) : printed[k] \in ReportParts

====
